---- MODULE Spec2Model ----
(***************************************************************************)
(* Model of the evaluation engine of ClinicalExtract (src/utils/eval.py):  *)
(* load_gold, normalize_for_match, partial_match, exact_match,             *)
(* compute_metrics and run_eval.                                           *)
(*                                                                         *)
(* JSON values are tagged records, Python strings are sequences of         *)
(* one-character strings, Python floats are exact fractions [n, d].        *)
(* Files are parsed JSON values: a file that json.load cannot parse and    *)
(* I/O failures are outside the model.                                     *)
(***************************************************************************)
EXTENDS Integers, Sequences, FiniteSets, TLC

VARIABLES
    \* one call of compute_metrics
    predicted, gold, match_fn,  \* the arguments
    pc,                         \* "idle" | "for_pred" | "for_gold" | "done" | "raised"
    pi,                         \* number of predicted records the outer loop has finished
    p_class, p_text,            \* locals of the outer loop body
    gi,                         \* i of enumerate(gold): the 0-based index examined next
    tp, matched_gold,           \* locals tp and matched_gold (0-based gold indices)
    pairs,                      \* history: <<predicted index, gold index>> of each hit (0-based)
    result,                     \* the returned metrics
    err,                        \* the exception that left the call, "" if none
    suspended,                  \* the frame of a second invocation that is not running now
    \* one call of run_eval
    samples_dir,                \* the directory: name -> [txt, gold, pred]
    epc,                        \* "idle" | "loop" | "done" | "raised"
    txt_i,                      \* number of txt paths the loop has finished
    doc_gold, pred_list,        \* locals gold and pred_list of the loop body
    results, all_pred, all_gold,
    report

cm_vars == <<predicted, gold, match_fn, pc, pi, p_class, p_text, gi, tp,
             matched_gold, pairs, result, err, suspended>>
eval_vars == <<samples_dir, epc, txt_i, doc_gold, pred_list, results,
               all_pred, all_gold, report>>
vars == <<cm_vars, eval_vars>>

----------------------------------------------------------------------------
(* Bounds *)

MaxPred == 2
MaxGold == 2
MaxDocs == 2

----------------------------------------------------------------------------
(* JSON values *)

Str(s) == [kind |-> "str", chars |-> s]
Null == [kind |-> "null"]
Num == [kind |-> "num"]
List(items) == [kind |-> "list", items |-> items]
Dict(fields) == [kind |-> "dict", fields |-> fields]
EmptyStr == Str(<<>>)
NoFields == [k \in {} |-> Null]

IsList(v) == v.kind = "list"
IsDict(v) == v.kind = "dict"
IsStr(v) == v.kind = "str"

\* d.get(key, default) on a dict
Get(d, key, default) ==
    IF key \in DOMAIN d.fields THEN d.fields[key] ELSE default

----------------------------------------------------------------------------
(* normalize_for_match: " ".join(s.lower().strip().split()) *)

\* str.lower() on the characters the inputs use
Lower(c) ==
    CASE c = "A" -> "a"
      [] c = "B" -> "b"
      [] c = "X" -> "x"
      [] OTHER -> c
IsSpace(c) == c = " "

LowerStr(s) == [k \in 1..Len(s) |-> Lower(s[k])]

RECURSIVE LStrip(_)
LStrip(s) ==
    IF s # <<>> /\ IsSpace(Head(s)) THEN LStrip(Tail(s)) ELSE s

RECURSIVE RStrip(_)
RStrip(s) ==
    IF s # <<>> /\ IsSpace(s[Len(s)]) THEN RStrip(SubSeq(s, 1, Len(s) - 1)) ELSE s

Strip(s) == RStrip(LStrip(s))

\* str.split(): the maximal runs of non-whitespace characters
RECURSIVE SplitFrom(_, _, _, _)
SplitFrom(s, k, cur, acc) ==
    IF k > Len(s)
    THEN IF cur = <<>> THEN acc ELSE Append(acc, cur)
    ELSE IF IsSpace(s[k])
         THEN SplitFrom(s, k + 1, <<>>, IF cur = <<>> THEN acc ELSE Append(acc, cur))
         ELSE SplitFrom(s, k + 1, Append(cur, s[k]), acc)

Split(s) == SplitFrom(s, 1, <<>>, <<>>)

RECURSIVE Join(_)
Join(words) ==
    IF words = <<>> THEN <<>>
    ELSE IF Len(words) = 1 THEN words[1]
    ELSE words[1] \o <<" ">> \o Join(Tail(words))

\* s is the character sequence of a str
normalize_for_match(s) == Join(Split(Strip(LowerStr(s))))

\* s.lower() on a value that is no str raises AttributeError
NormalizeRaises(v) == ~IsStr(v)

\* Python's "a in b" on strings
Contains(a, b) ==
    \E k \in 0..(Len(b) - Len(a)) : SubSeq(b, k + 1, k + Len(a)) = a

\* line 39 testing one direction only: p in g
partial_match_pred_in_gold(pred_text, gold_text) ==
    LET p == normalize_for_match(pred_text.chars)
        g == normalize_for_match(gold_text.chars)
    IN  IF p = <<>> \/ g = <<>> THEN FALSE
        ELSE Contains(p, g)

\* line 39 testing one direction only: g in p
partial_match_gold_in_pred(pred_text, gold_text) ==
    LET p == normalize_for_match(pred_text.chars)
        g == normalize_for_match(gold_text.chars)
    IN  IF p = <<>> \/ g = <<>> THEN FALSE
        ELSE Contains(g, p)

partial_match(pred_text, gold_text) ==
    LET p == normalize_for_match(pred_text.chars)
        g == normalize_for_match(gold_text.chars)
    IN  IF p = <<>> \/ g = <<>> THEN FALSE
        ELSE Contains(p, g) \/ Contains(g, p)

\* line 44 with the predicted text left un-normalized
exact_match_raw_pred(pred_text, gold_text) ==
    pred_text.chars = normalize_for_match(gold_text.chars)

exact_match(pred_text, gold_text) ==
    normalize_for_match(pred_text.chars) = normalize_for_match(gold_text.chars)

\* match = partial_match if match_fn == "partial" else exact_match
Match(fn, pred_text, gold_text) ==
    IF fn = "partial" THEN partial_match(pred_text, gold_text)
    ELSE exact_match(pred_text, gold_text)

\* both predicates normalize both texts before anything else
MatchRaises(pred_text, gold_text) ==
    NormalizeRaises(pred_text) \/ NormalizeRaises(gold_text)

\* line 68 comparing the classes after normalization
ClassDiffersNormalized(pclass, g) ==
    LET gclass == Get(g, "class", EmptyStr)
    IN  IF IsStr(pclass) /\ IsStr(gclass)
        THEN normalize_for_match(pclass.chars) # normalize_for_match(gclass.chars)
        ELSE pclass # gclass

\* the class gate: p_class != g.get("class", "")
ClassDiffers(pclass, g) == pclass # Get(g, "class", EmptyStr)

----------------------------------------------------------------------------
(* Floats as exact fractions; a division by zero is the value DivZero *)

RECURSIVE GCD(_, _)
GCD(a, b) == IF b = 0 THEN a ELSE GCD(b, a % b)

Frac(n, d) == LET g == GCD(n, d) IN [n |-> n \div g, d |-> d \div g]
Zero == [n |-> 0, d |-> 1]
One == [n |-> 1, d |-> 1]
DivZero == [n |-> 1, d |-> 0]

FromInt(k) == [n |-> k, d |-> 1]
IsDivZero(x) == x.d = 0
FMul(x, y) == IF IsDivZero(x) \/ IsDivZero(y) THEN DivZero ELSE Frac(x.n * y.n, x.d * y.d)
FAdd(x, y) == IF IsDivZero(x) \/ IsDivZero(y) THEN DivZero ELSE Frac(x.n * y.d + y.n * x.d, x.d * y.d)
FDiv(x, y) ==
    IF IsDivZero(x) \/ IsDivZero(y) \/ y.n = 0 THEN DivZero
    ELSE Frac(x.n * y.d, x.d * y.n)
FLeq(x, y) == x.n * y.d <= y.n * x.d
FPos(x) == ~IsDivZero(x) /\ x.n > 0

\* line 77 without its guard
PrecisionUnguarded(t, num_pred) == FDiv(FromInt(t), FromInt(num_pred))

Precision(t, num_pred) ==
    IF num_pred # 0 THEN FDiv(FromInt(t), FromInt(num_pred)) ELSE Zero

Recall(t, num_gold) ==
    IF num_gold # 0 THEN FDiv(FromInt(t), FromInt(num_gold)) ELSE Zero

F1(precision, recall) ==
    IF FPos(FAdd(precision, recall))
    THEN FDiv(FMul(FMul(FromInt(2), precision), recall), FAdd(precision, recall))
    ELSE Zero

\* lines 75-81
Metrics(t, num_pred, num_gold) ==
    LET precision == Precision(t, num_pred)
        recall == Recall(t, num_gold)
    IN  [precision |-> precision, recall |-> recall, f1 |-> F1(precision, recall),
         tp |-> t, pred |-> num_pred, gold |-> num_gold]

MetricsRaises(m) == IsDivZero(m.precision) \/ IsDivZero(m.recall) \/ IsDivZero(m.f1)

NoResult == [kind |-> "none"]
NoFrame == [pc |-> "none"]

----------------------------------------------------------------------------
(* Inputs: the elements a loaded list can hold *)

RecA == Dict([class |-> Str(<<"x">>), text |-> Str(<<"a">>)])
RecB == Dict([class |-> Str(<<"x">>), text |-> Str(<<" ", "A", " ", " ", "b">>)])
RecC == Dict([class |-> Str(<<"X">>), text |-> Str(<<"a">>)])
RecBlank == Dict([class |-> Str(<<"x">>), text |-> Str(<<" ">>)])
RecNoKeys == Dict(NoFields)
RecNullText == Dict([class |-> Str(<<"x">>), text |-> Null])

Elements == {RecA, RecB, RecC, RecBlank, RecNoKeys, RecNullText, Num}

SeqsUpTo(S, n) == UNION {[1..k -> S] : k \in 0..n}

\* the values compute_metrics can be handed: lists, and what load_gold lets through
PredictedArgs == {List(s) : s \in SeqsUpTo(Elements, MaxPred)} \cup {Num}
GoldArgs == {List(s) : s \in SeqsUpTo(Elements, MaxGold)} \cup {Num}

----------------------------------------------------------------------------
(* compute_metrics, one step of its loops per action (lines 57-81) *)

EvalIdle ==
    /\ samples_dir = <<>>
    /\ epc = "idle"
    /\ txt_i = 0
    /\ doc_gold = NoResult
    /\ pred_list = NoResult
    /\ results = <<>>
    /\ all_pred = <<>>
    /\ all_gold = <<>>
    /\ report = NoResult

Init ==
    /\ predicted \in PredictedArgs
    /\ gold \in GoldArgs
    /\ match_fn \in {"partial", "exact"}
    /\ pc = "for_pred"
    /\ pi = 0
    /\ p_class = EmptyStr
    /\ p_text = EmptyStr
    /\ gi = 0
    /\ tp = 0
    /\ matched_gold = {}
    /\ pairs = {}
    /\ result = NoResult
    /\ err = ""
    /\ suspended = NoFrame
    /\ EvalIdle

Raise(e) ==
    /\ pc' = "raised"
    /\ err' = e
    /\ UNCHANGED <<predicted, gold, match_fn, pi, p_class, p_text, gi, tp,
                   matched_gold, pairs, result>>

\* line 62: "for p in predicted" on a value that cannot be iterated
PredIterRaise ==
    /\ pc = "for_pred"
    /\ ~IsList(predicted)
    /\ Raise("TypeError")
    /\ UNCHANGED <<eval_vars, suspended>>

\* lines 63-64: p.get on an element that is no dict
PredGetRaise ==
    /\ pc = "for_pred"
    /\ IsList(predicted)
    /\ pi < Len(predicted.items)
    /\ ~IsDict(predicted.items[pi + 1])
    /\ Raise("AttributeError")
    /\ UNCHANGED <<eval_vars, suspended>>

\* line 65: enumerate(gold) on a value that cannot be iterated
GoldIterRaise ==
    /\ pc = "for_pred"
    /\ IsList(predicted)
    /\ pi < Len(predicted.items)
    /\ IsDict(predicted.items[pi + 1])
    /\ ~IsList(gold)
    /\ Raise("TypeError")
    /\ UNCHANGED <<eval_vars, suspended>>

\* lines 62-65: take the next predicted record and start scanning gold
PredBegin ==
    /\ pc = "for_pred"
    /\ IsList(predicted)
    /\ pi < Len(predicted.items)
    /\ IsDict(predicted.items[pi + 1])
    /\ IsList(gold)
    /\ p_class' = Get(predicted.items[pi + 1], "class", EmptyStr)
    /\ p_text' = Get(predicted.items[pi + 1], "text", EmptyStr)
    /\ gi' = 0
    /\ pc' = "for_gold"
    /\ UNCHANGED <<predicted, gold, match_fn, pi, tp, matched_gold, pairs, result, err>>
    /\ UNCHANGED <<eval_vars, suspended>>

Continue ==
    /\ gi' = gi + 1
    /\ UNCHANGED <<predicted, gold, match_fn, pc, pi, p_class, p_text, tp,
                   matched_gold, pairs, result, err>>

\* lines 66-67 with a break for the continue: a consumed index ends the scan
GoldSkipMatchedBreaks ==
    /\ pc = "for_gold"
    /\ gi < Len(gold.items)
    /\ gi \in matched_gold
    /\ pi' = pi + 1
    /\ pc' = "for_pred"
    /\ UNCHANGED <<predicted, gold, match_fn, p_class, p_text, gi, tp,
                   matched_gold, pairs, result, err>>
    /\ UNCHANGED <<eval_vars, suspended>>

\* lines 66-67
GoldSkipMatched ==
    /\ pc = "for_gold"
    /\ gi < Len(gold.items)
    /\ gi \in matched_gold
    /\ Continue
    /\ UNCHANGED <<eval_vars, suspended>>

\* line 68: g.get on an element that is no dict
GoldGetRaise ==
    /\ pc = "for_gold"
    /\ gi < Len(gold.items)
    /\ gi \notin matched_gold
    /\ ~IsDict(gold.items[gi + 1])
    /\ Raise("AttributeError")
    /\ UNCHANGED <<eval_vars, suspended>>

\* lines 68-69
GoldSkipClass ==
    /\ pc = "for_gold"
    /\ gi < Len(gold.items)
    /\ gi \notin matched_gold
    /\ IsDict(gold.items[gi + 1])
    /\ ClassDiffers(p_class, gold.items[gi + 1])
    /\ Continue
    /\ UNCHANGED <<eval_vars, suspended>>

\* the guard shared by the steps that reach line 70
AtMatch ==
    /\ pc = "for_gold"
    /\ gi < Len(gold.items)
    /\ gi \notin matched_gold
    /\ IsDict(gold.items[gi + 1])
    /\ ~ClassDiffers(p_class, gold.items[gi + 1])

\* line 70: the predicate raises on a text that is no str
GoldMatchRaise ==
    /\ AtMatch
    /\ MatchRaises(p_text, Get(gold.items[gi + 1], "text", EmptyStr))
    /\ Raise("AttributeError")
    /\ UNCHANGED <<eval_vars, suspended>>

\* line 70 with a break on a failed predicate: the scan ends at the first candidate
GoldMissBreaks ==
    /\ AtMatch
    /\ ~MatchRaises(p_text, Get(gold.items[gi + 1], "text", EmptyStr))
    /\ ~Match(match_fn, p_text, Get(gold.items[gi + 1], "text", EmptyStr))
    /\ pi' = pi + 1
    /\ pc' = "for_pred"
    /\ UNCHANGED <<predicted, gold, match_fn, p_class, p_text, gi, tp,
                   matched_gold, pairs, result, err>>
    /\ UNCHANGED <<eval_vars, suspended>>

\* line 70, predicate false: next gold record
GoldMiss ==
    /\ AtMatch
    /\ ~MatchRaises(p_text, Get(gold.items[gi + 1], "text", EmptyStr))
    /\ ~Match(match_fn, p_text, Get(gold.items[gi + 1], "text", EmptyStr))
    /\ Continue
    /\ UNCHANGED <<eval_vars, suspended>>

\* lines 70-73 without line 72: the gold index is not consumed
GoldHitNoConsume ==
    /\ AtMatch
    /\ ~MatchRaises(p_text, Get(gold.items[gi + 1], "text", EmptyStr))
    /\ Match(match_fn, p_text, Get(gold.items[gi + 1], "text", EmptyStr))
    /\ tp' = tp + 1
    /\ pairs' = pairs \cup {<<pi, gi>>}
    /\ pi' = pi + 1
    /\ pc' = "for_pred"
    /\ UNCHANGED <<predicted, gold, match_fn, p_class, p_text, gi, matched_gold, result, err>>
    /\ UNCHANGED <<eval_vars, suspended>>

\* lines 70-73 without line 73: the scan goes on after a hit
GoldHitNoBreak ==
    /\ AtMatch
    /\ ~MatchRaises(p_text, Get(gold.items[gi + 1], "text", EmptyStr))
    /\ Match(match_fn, p_text, Get(gold.items[gi + 1], "text", EmptyStr))
    /\ tp' = tp + 1
    /\ matched_gold' = matched_gold \cup {gi}
    /\ pairs' = pairs \cup {<<pi, gi>>}
    /\ gi' = gi + 1
    /\ UNCHANGED <<predicted, gold, match_fn, pc, pi, p_class, p_text, result, err>>
    /\ UNCHANGED <<eval_vars, suspended>>

\* lines 70-73, predicate true: count, consume the gold index, break
GoldHit ==
    /\ AtMatch
    /\ ~MatchRaises(p_text, Get(gold.items[gi + 1], "text", EmptyStr))
    /\ Match(match_fn, p_text, Get(gold.items[gi + 1], "text", EmptyStr))
    /\ tp' = tp + 1
    /\ matched_gold' = matched_gold \cup {gi}
    /\ pairs' = pairs \cup {<<pi, gi>>}
    /\ pi' = pi + 1
    /\ pc' = "for_pred"
    /\ UNCHANGED <<predicted, gold, match_fn, p_class, p_text, gi, result, err>>
    /\ UNCHANGED <<eval_vars, suspended>>

\* line 65: the gold records are exhausted without a hit
GoldExhausted ==
    /\ pc = "for_gold"
    /\ gi = Len(gold.items)
    /\ pi' = pi + 1
    /\ pc' = "for_pred"
    /\ UNCHANGED <<predicted, gold, match_fn, p_class, p_text, gi, tp,
                   matched_gold, pairs, result, err>>
    /\ UNCHANGED <<eval_vars, suspended>>

\* line 76: len(gold) on a value that has no length
LenRaise ==
    /\ pc = "for_pred"
    /\ IsList(predicted)
    /\ pi = Len(predicted.items)
    /\ ~IsList(gold)
    /\ Raise("TypeError")
    /\ UNCHANGED <<eval_vars, suspended>>

\* lines 75-81
Return ==
    /\ pc = "for_pred"
    /\ IsList(predicted)
    /\ pi = Len(predicted.items)
    /\ IsList(gold)
    /\ LET m == Metrics(tp, Len(predicted.items), Len(gold.items))
       IN  IF MetricsRaises(m)
           THEN /\ pc' = "raised"
                /\ err' = "ZeroDivisionError"
                /\ result' = result
           ELSE /\ pc' = "done"
                /\ err' = err
                /\ result' = m
    /\ UNCHANGED <<predicted, gold, match_fn, pi, p_class, p_text, gi, tp,
                   matched_gold, pairs>>
    /\ UNCHANGED <<eval_vars, suspended>>

Next ==
    \/ PredIterRaise
    \/ PredGetRaise
    \/ GoldIterRaise
    \/ PredBegin
    \/ GoldSkipMatched
    \/ GoldGetRaise
    \/ GoldSkipClass
    \/ GoldMatchRaise
    \/ GoldMiss
    \/ GoldHit
    \/ GoldExhausted
    \/ LenRaise
    \/ Return

Spec == Init /\ [][Next]_vars

----------------------------------------------------------------------------
(* Several invocations of compute_metrics: two frames that interleave step
   by step, and a caller that invokes it again once an invocation has ended
   (run_eval calls it once per document and once on the pools). *)

Call(p, g, fn) == [predicted |-> p, gold |-> g, match_fn |-> fn]

\* the invocations made: every step of the function occurs in one of them
CallSamples ==
    { Call(List(<<RecA, RecA>>), List(<<RecA, RecB>>), "partial"),
      Call(List(<<RecC, RecB>>), List(<<RecA>>), "exact"),
      Call(List(<<RecA>>), List(<<RecA>>), "partial"),
      Call(List(<<RecNullText>>), List(<<RecA>>), "partial"),
      Call(List(<<Num>>), List(<<RecA>>), "partial"),
      Call(List(<<RecA>>), List(<<Num>>), "exact"),
      Call(List(<<RecA>>), Num, "partial"),
      Call(List(<<>>), Num, "partial"),
      Call(Num, List(<<>>), "partial") }

\* the frame of an invocation: its arguments and locals
Frame ==
    [predicted |-> predicted, gold |-> gold, match_fn |-> match_fn, pc |-> pc,
     pi |-> pi, p_class |-> p_class, p_text |-> p_text, gi |-> gi, tp |-> tp,
     matched_gold |-> matched_gold, pairs |-> pairs, result |-> result, err |-> err]

\* lines 47-61 with matched_gold kept from the invocation before (not a local)
NewFrameKeepsMatched(c) ==
    [predicted |-> c.predicted, gold |-> c.gold, match_fn |-> c.match_fn,
     pc |-> "for_pred", pi |-> 0, p_class |-> EmptyStr, p_text |-> EmptyStr,
     gi |-> 0, tp |-> 0, matched_gold |-> matched_gold, pairs |-> {},
     result |-> NoResult, err |-> ""]

\* lines 47-61: the frame of a new invocation
NewFrame(c) ==
    [predicted |-> c.predicted, gold |-> c.gold, match_fn |-> c.match_fn,
     pc |-> "for_pred", pi |-> 0, p_class |-> EmptyStr, p_text |-> EmptyStr,
     gi |-> 0, tp |-> 0, matched_gold |-> {}, pairs |-> {}, result |-> NoResult,
     err |-> ""]

Resume(f) ==
    /\ predicted' = f.predicted
    /\ gold' = f.gold
    /\ match_fn' = f.match_fn
    /\ pc' = f.pc
    /\ pi' = f.pi
    /\ p_class' = f.p_class
    /\ p_text' = f.p_text
    /\ gi' = f.gi
    /\ tp' = f.tp
    /\ matched_gold' = f.matched_gold
    /\ pairs' = f.pairs
    /\ result' = f.result
    /\ err' = f.err

InitCalls ==
    /\ \E c \in CallSamples :
          /\ predicted = c.predicted
          /\ gold = c.gold
          /\ match_fn = c.match_fn
    /\ pc = "for_pred"
    /\ pi = 0
    /\ p_class = EmptyStr
    /\ p_text = EmptyStr
    /\ gi = 0
    /\ tp = 0
    /\ matched_gold = {}
    /\ pairs = {}
    /\ result = NoResult
    /\ err = ""
    /\ \E c \in CallSamples : suspended = NewFrame(c)
    /\ EvalIdle

\* the running invocation is suspended and the other one goes on
Switch ==
    /\ suspended # NoFrame
    /\ suspended' = Frame
    /\ Resume(suspended)
    /\ UNCHANGED eval_vars

\* the invocation has ended and the caller makes another one
CallAgain ==
    /\ pc \in {"done", "raised"}
    /\ \E c \in CallSamples : Resume(NewFrame(c))
    /\ UNCHANGED <<eval_vars, suspended>>

NextCalls ==
    \/ Next
    \/ Switch
    \/ CallAgain

SpecCalls == InitCalls /\ [][NextCalls]_vars

----------------------------------------------------------------------------
(* compute_metrics as a function of its arguments, for its callers *)

\* lines 65-73: the scan of gold for one predicted record, from index i
RECURSIVE ScanGold(_, _, _, _, _, _)
ScanGold(fn, pclass, ptext, golds, matched, i) ==
    IF i >= Len(golds) THEN [out |-> "none"]
    ELSE IF i \in matched THEN ScanGold(fn, pclass, ptext, golds, matched, i + 1)
    ELSE IF ~IsDict(golds[i + 1]) THEN [out |-> "raise", err |-> "AttributeError"]
    ELSE IF ClassDiffers(pclass, golds[i + 1])
         THEN ScanGold(fn, pclass, ptext, golds, matched, i + 1)
    ELSE IF MatchRaises(ptext, Get(golds[i + 1], "text", EmptyStr))
         THEN [out |-> "raise", err |-> "AttributeError"]
    ELSE IF Match(fn, ptext, Get(golds[i + 1], "text", EmptyStr))
         THEN [out |-> "hit", i |-> i]
    ELSE ScanGold(fn, pclass, ptext, golds, matched, i + 1)

Raised(e) == [raised |-> TRUE, err |-> e]
Returned(m) == [raised |-> FALSE, metrics |-> m]

\* lines 62-81: the outer loop from predicted index k, then the metrics
RECURSIVE PredLoop(_, _, _, _, _, _)
PredLoop(fn, preds, g, k, t, matched) ==
    IF k = Len(preds)
    THEN IF ~IsList(g) THEN Raised("TypeError")
         ELSE LET m == Metrics(t, Len(preds), Len(g.items))
              IN  IF MetricsRaises(m) THEN Raised("ZeroDivisionError") ELSE Returned(m)
    ELSE IF ~IsDict(preds[k + 1]) THEN Raised("AttributeError")
    ELSE IF ~IsList(g) THEN Raised("TypeError")
    ELSE LET hit == ScanGold(fn, Get(preds[k + 1], "class", EmptyStr),
                             Get(preds[k + 1], "text", EmptyStr), g.items, matched, 0)
         IN  IF hit.out = "raise" THEN Raised(hit.err)
             ELSE IF hit.out = "hit"
                  THEN PredLoop(fn, preds, g, k + 1, t + 1, matched \cup {hit.i})
             ELSE PredLoop(fn, preds, g, k + 1, t, matched)

compute_metrics(preds, g, fn) ==
    IF ~IsList(preds) THEN Raised("TypeError")
    ELSE PredLoop(fn, preds.items, g, 0, 0, {})

----------------------------------------------------------------------------
(* run_eval (lines 84-126), one txt path per action; output_dir is None *)

Absent == [kind |-> "absent"]
NoDoc == [txt |-> FALSE, gold |-> Absent, pred |-> Absent]

\* the contents a .json file of the directory can have
FileValues ==
    { List(<<>>), List(<<RecA>>), List(<<RecNullText>>),
      Dict([extractions |-> List(<<RecB, RecA>>)]),
      Dict([extractions |-> Num]),
      Dict(NoFields) }

Files == {Absent} \cup FileValues

DocStates == {NoDoc} \cup {[txt |-> TRUE, gold |-> g, pred |-> p] : g \in Files, p \in Files}

\* lines 17-25
load_gold(data) ==
    IF IsList(data) THEN data
    ELSE IF IsDict(data) /\ "extractions" \in DOMAIN data.fields THEN data.fields.extractions
    ELSE List(<<>>)

\* lines 104-111
LoadPred(pred) ==
    IF IsList(pred) THEN pred
    ELSE IF IsDict(pred) /\ "extractions" \in DOMAIN pred.fields THEN pred.fields.extractions
    ELSE List(<<>>)

\* line 94: sorted(samples_dir.glob("*.txt")), names in increasing order
RECURSIVE SortedNames(_)
SortedNames(S) ==
    IF S = {} THEN <<>>
    ELSE LET m == CHOOSE x \in S : \A y \in S : x <= y
         IN  <<m>> \o SortedNames(S \ {m})

TxtPaths(dir) == SortedNames({n \in DOMAIN dir : dir[n].txt})

\* lines 95-115 with the gold records pooled before the check of line 102
LoopBodyPoolsBeforeCheck(s, name, d) ==
    IF d.gold = Absent THEN s
    ELSE LET g == load_gold(d.gold)
         IN  IF d.pred = Absent
             THEN [s EXCEPT !.doc_gold = g,
                            !.all_gold = IF IsList(g) THEN @ \o g.items ELSE @]
             ELSE LET pl == LoadPred(d.pred)
                      r == compute_metrics(pl, g, "partial")
                  IN  IF r.raised
                      THEN [s EXCEPT !.status = "raised", !.doc_gold = g, !.pred_list = pl]
                      ELSE [s EXCEPT !.doc_gold = g, !.pred_list = pl,
                                     !.results = Append(@, [file |-> name, metrics |-> r.metrics]),
                                     !.all_pred = @ \o pl.items,
                                     !.all_gold = @ \o g.items]

\* lines 112-115 with the document scored on the pools extended by it
LoopBodyScoresPool(s, name, d) ==
    IF d.gold = Absent THEN s
    ELSE LET g == load_gold(d.gold)
         IN  IF d.pred = Absent THEN [s EXCEPT !.doc_gold = g]
             ELSE LET pl == LoadPred(d.pred)
                      r == compute_metrics(pl, g, "partial")
                  IN  IF r.raised
                      THEN [s EXCEPT !.status = "raised", !.doc_gold = g, !.pred_list = pl]
                      ELSE LET q == compute_metrics(List(s.all_pred \o pl.items),
                                                    List(s.all_gold \o g.items), "partial")
                           IN  IF q.raised
                               THEN [s EXCEPT !.status = "raised", !.doc_gold = g,
                                              !.pred_list = pl]
                               ELSE [s EXCEPT !.doc_gold = g, !.pred_list = pl,
                                              !.results = Append(@, [file |-> name,
                                                                     metrics |-> q.metrics]),
                                              !.all_pred = @ \o pl.items,
                                              !.all_gold = @ \o g.items]

\* lines 95-115: the loop body for the document d named name, on the locals s
LoopBody(s, name, d) ==
    IF d.gold = Absent THEN s
    ELSE LET g == load_gold(d.gold)
         IN  IF d.pred = Absent THEN [s EXCEPT !.doc_gold = g]
             ELSE LET pl == LoadPred(d.pred)
                      r == compute_metrics(pl, g, "partial")
                  IN  IF r.raised
                      THEN [s EXCEPT !.status = "raised", !.doc_gold = g, !.pred_list = pl]
                      ELSE [s EXCEPT !.doc_gold = g, !.pred_list = pl,
                                     !.results = Append(@, [file |-> name, metrics |-> r.metrics]),
                                     !.all_pred = @ \o pl.items,
                                     !.all_gold = @ \o g.items]

\* lines 117-118 with the arguments of compute_metrics swapped
FinishSwapped(s) ==
    IF s.all_pred # <<>> /\ s.all_gold # <<>>
    THEN LET r == compute_metrics(List(s.all_gold), List(s.all_pred), "partial")
         IN  IF r.raised THEN [s EXCEPT !.status = "raised"]
             ELSE [s EXCEPT !.status = "done",
                            !.report = [per_file |-> s.results, aggregate |-> r.metrics]]
    ELSE [s EXCEPT !.status = "done",
                   !.report = [per_file |-> s.results, aggregate |-> NoFields]]

\* lines 117-118 and 126
Finish(s) ==
    IF s.all_pred # <<>> /\ s.all_gold # <<>>
    THEN LET r == compute_metrics(List(s.all_pred), List(s.all_gold), "partial")
         IN  IF r.raised THEN [s EXCEPT !.status = "raised"]
             ELSE [s EXCEPT !.status = "done",
                            !.report = [per_file |-> s.results, aggregate |-> r.metrics]]
    ELSE [s EXCEPT !.status = "done",
                   !.report = [per_file |-> s.results, aggregate |-> NoFields]]

Locals0 ==
    [status |-> "loop", doc_gold |-> NoResult, pred_list |-> NoResult,
     results |-> <<>>, all_pred |-> <<>>, all_gold |-> <<>>, report |-> NoResult]

RECURSIVE RunLoop(_, _, _, _)
RunLoop(dir, paths, k, s) ==
    IF s.status = "raised" THEN s
    ELSE IF k = Len(paths) THEN Finish(s)
    ELSE RunLoop(dir, paths, k + 1, LoopBody(s, paths[k + 1], dir[paths[k + 1]]))

\* the outcome of run_eval on a directory: whether it raised, and the report
run_eval(dir) ==
    LET s == RunLoop(dir, TxtPaths(dir), 0, Locals0)
    IN  [raised |-> s.status = "raised", report |-> s.report]

CmIdle ==
    /\ predicted = NoResult
    /\ gold = NoResult
    /\ match_fn = "partial"
    /\ pc = "idle"
    /\ pi = 0
    /\ p_class = EmptyStr
    /\ p_text = EmptyStr
    /\ gi = 0
    /\ tp = 0
    /\ matched_gold = {}
    /\ pairs = {}
    /\ result = NoResult
    /\ err = ""
    /\ suspended = NoFrame

InitEval ==
    /\ samples_dir \in [1..MaxDocs -> DocStates]
    /\ epc = "loop"
    /\ txt_i = 0
    /\ doc_gold = NoResult
    /\ pred_list = NoResult
    /\ results = <<>>
    /\ all_pred = <<>>
    /\ all_gold = <<>>
    /\ report = NoResult
    /\ CmIdle

Locals ==
    [status |-> epc, doc_gold |-> doc_gold, pred_list |-> pred_list,
     results |-> results, all_pred |-> all_pred, all_gold |-> all_gold, report |-> report]

SetLocals(s) ==
    /\ epc' = s.status
    /\ doc_gold' = s.doc_gold
    /\ pred_list' = s.pred_list
    /\ results' = s.results
    /\ all_pred' = s.all_pred
    /\ all_gold' = s.all_gold
    /\ report' = s.report

InLoop == epc = "loop" /\ txt_i < Len(TxtPaths(samples_dir))
CurName == TxtPaths(samples_dir)[txt_i + 1]
CurDoc == samples_dir[CurName]

\* one iteration of the loop of line 94
Iterate ==
    /\ SetLocals(LoopBody(Locals, CurName, CurDoc))
    /\ txt_i' = txt_i + 1
    /\ UNCHANGED <<samples_dir, cm_vars>>

\* lines 96-97
SkipNoGold ==
    /\ InLoop
    /\ CurDoc.gold = Absent
    /\ Iterate

\* lines 98-103
SkipNoPred ==
    /\ InLoop
    /\ CurDoc.gold # Absent
    /\ CurDoc.pred = Absent
    /\ Iterate

\* lines 98-115, compute_metrics returns
EvalDoc ==
    /\ InLoop
    /\ CurDoc.gold # Absent
    /\ CurDoc.pred # Absent
    /\ ~compute_metrics(LoadPred(CurDoc.pred), load_gold(CurDoc.gold), "partial").raised
    /\ Iterate

\* lines 98-112, compute_metrics raises
EvalDocRaise ==
    /\ InLoop
    /\ CurDoc.gold # Absent
    /\ CurDoc.pred # Absent
    /\ compute_metrics(LoadPred(CurDoc.pred), load_gold(CurDoc.gold), "partial").raised
    /\ Iterate

AfterLoop == epc = "loop" /\ txt_i = Len(TxtPaths(samples_dir))

\* lines 117-126, both pools non-empty and compute_metrics returns
Aggregate ==
    /\ AfterLoop
    /\ all_pred # <<>> /\ all_gold # <<>>
    /\ ~compute_metrics(List(all_pred), List(all_gold), "partial").raised
    /\ SetLocals(Finish(Locals))
    /\ UNCHANGED <<samples_dir, txt_i, cm_vars>>

\* line 117, compute_metrics raises on the pools
AggregateRaise ==
    /\ AfterLoop
    /\ all_pred # <<>> /\ all_gold # <<>>
    /\ compute_metrics(List(all_pred), List(all_gold), "partial").raised
    /\ SetLocals(Finish(Locals))
    /\ UNCHANGED <<samples_dir, txt_i, cm_vars>>

\* lines 117-126, a pool is empty
AggregateEmpty ==
    /\ AfterLoop
    /\ (all_pred = <<>> \/ all_gold = <<>>)
    /\ SetLocals(Finish(Locals))
    /\ UNCHANGED <<samples_dir, txt_i, cm_vars>>

NextEval ==
    \/ SkipNoGold
    \/ SkipNoPred
    \/ EvalDoc
    \/ EvalDocRaise
    \/ Aggregate
    \/ AggregateRaise
    \/ AggregateEmpty

SpecEval == InitEval /\ [][NextEval]_vars

----------------------------------------------------------------------------
(* Properties of compute_metrics, checked under Spec *)

PClass(k) == Get(predicted.items[k + 1], "class", EmptyStr)
PText(k) == Get(predicted.items[k + 1], "text", EmptyStr)
GClass(k) == Get(gold.items[k + 1], "class", EmptyStr)
GText(k) == Get(gold.items[k + 1], "text", EmptyStr)

Min(a, b) == IF a <= b THEN a ELSE b

\* n >= 1 identical predicted records against one gold record that they match
IdenticalAgainstOne ==
    /\ Len(gold.items) = 1
    /\ Len(predicted.items) >= 1
    /\ \A k \in 1..Len(predicted.items) : predicted.items[k] = predicted.items[1]
    /\ IsDict(predicted.items[1]) /\ IsDict(gold.items[1])
    /\ PClass(0) = GClass(0)
    /\ ~MatchRaises(PText(0), GText(0))
    /\ Match(match_fn, PText(0), GText(0))

(* C1: the matching of compute_metrics is one-to-one under either predicate:
   no gold index is paired with two predicted records, no predicted record
   with two gold indices, tp counts the pairs, so the returned tp is at most
   min(len(predicted), len(gold)); n identical predicted records against a
   single matching gold record give tp = 1. *)
C1_OneToOne ==
    /\ \A a \in pairs, b \in pairs : (a[1] = b[1]) <=> (a[2] = b[2])
    /\ matched_gold = {a[2] : a \in pairs}
    /\ tp = Cardinality(pairs)
    /\ pc = "done" =>
          /\ result.tp = tp
          /\ result.tp <= Min(Len(predicted.items), Len(gold.items))
          /\ IdenticalAgainstOne => result.tp = 1

C1_Witness ==
    /\ pc = "done"
    /\ Len(predicted.items) = 2
    /\ IdenticalAgainstOne
    /\ pairs = {<<0, 0>>}
    /\ result.tp = 1
    /\ result.precision = Frac(1, 2)
    /\ result.recall = One

(* C3: no exception leaves compute_metrics, whatever the elements of the
   predicted and gold sequences are (missing keys, texts that are no
   strings, elements that are no records). *)
C3_NoException ==
    (IsList(predicted) /\ IsList(gold)) => pc # "raised"

(* C4: under either predicate a predicted record is never paired with a gold
   record when the text of either side is empty after normalization. *)
C4_BlankNeverMatches ==
    \A a \in pairs :
        /\ normalize_for_match(PText(a[1]).chars) # <<>>
        /\ normalize_for_match(GText(a[2]).chars) # <<>>

Degenerate ==
    /\ IsList(predicted) /\ IsList(gold)
    /\ (predicted.items = <<>> \/ gold.items = <<>>)

(* C5: on empty predicted, empty gold or both, compute_metrics divides by
   zero nowhere and returns precision 0 if predicted is empty, recall 0 if
   gold is empty, f1 0, tp 0 and the two input lengths as pred and gold;
   for both empty that is the all-zero record.  It returns whenever
   predicted is empty, or gold is empty and the predicted elements are
   records. *)
C5_DegenerateInputs ==
    /\ err # "ZeroDivisionError"
    /\ (Degenerate /\ pc = "raised") =>
          \E k \in 1..Len(predicted.items) : ~IsDict(predicted.items[k])
    /\ (Degenerate /\ pc = "done") =>
          /\ predicted.items = <<>> => result.precision = Zero
          /\ gold.items = <<>> => result.recall = Zero
          /\ result.f1 = Zero
          /\ result.tp = 0
          /\ result.pred = Len(predicted.items)
          /\ result.gold = Len(gold.items)
          /\ (predicted.items = <<>> /\ gold.items = <<>>) =>
                result = [precision |-> Zero, recall |-> Zero, f1 |-> Zero,
                          tp |-> 0, pred |-> 0, gold |-> 0]

C5_Witness ==
    /\ pc = "done"
    /\ predicted.items = <<>>
    /\ gold.items # <<>>
    /\ result.precision = Zero
    /\ result.recall = Zero

(* C8: for non-empty predicted and gold and either predicate, the returned
   precision, recall and f1 lie in [0, 1]; in exact arithmetic
   0 <= tp <= pred, tp <= gold and 2*tp <= pred + gold. *)
C8_MetricsInUnitInterval ==
    (pc = "done" /\ predicted.items # <<>> /\ gold.items # <<>>) =>
        /\ FLeq(Zero, result.precision) /\ FLeq(result.precision, One)
        /\ FLeq(Zero, result.recall) /\ FLeq(result.recall, One)
        /\ FLeq(Zero, result.f1) /\ FLeq(result.f1, One)
        /\ 0 <= result.tp
        /\ result.tp <= result.pred
        /\ result.tp <= result.gold
        /\ 2 * result.tp <= result.pred + result.gold

C8_Witness ==
    /\ pc = "done"
    /\ result.tp = 1
    /\ result.pred = 2
    /\ result.gold = 1
    /\ result.precision = Frac(1, 2)
    /\ result.f1 = Frac(2, 3)

(* C9: compute_metrics never pairs a predicted record with a gold record
   whose class differs from its own, the classes compared as they are
   (case-sensitive, not normalized), under either predicate and whatever
   the texts; if no gold record has the class of any predicted record,
   tp = 0. *)
C9_ClassGate ==
    /\ \A a \in pairs : PClass(a[1]) = GClass(a[2])
    /\ (/\ pc = "done"
        /\ \A k \in 1..Len(predicted.items), j \in 1..Len(gold.items) :
              PClass(k - 1) # GClass(j - 1))
       => result.tp = 0

\* same text, classes that differ by case only: no pair
C9_Witness ==
    /\ pc = "done"
    /\ predicted.items = <<RecC>>
    /\ gold.items = <<RecA>>
    /\ PText(0) = GText(0)
    /\ result.tp = 0

\* X = predicted = gold: records with non-empty texts, distinct within a class
ExactSelfInput ==
    /\ match_fn = "exact"
    /\ IsList(predicted)
    /\ predicted = gold
    /\ predicted.items # <<>>
    /\ \A k \in 1..Len(predicted.items) :
          /\ IsDict(predicted.items[k])
          /\ IsStr(PText(k - 1))
          /\ PText(k - 1).chars # <<>>
    /\ \A k \in 1..Len(predicted.items), j \in 1..Len(predicted.items) :
          (k # j /\ PClass(k - 1) = PClass(j - 1)) => PText(k - 1) # PText(j - 1)

(* C10: for a non-empty sequence X of records with non-empty texts that are
   pairwise distinct within each class, compute_metrics(X, X, "exact")
   returns tp = len(X) and precision = recall = f1 = 1. *)
C10_ExactIdempotence ==
    ExactSelfInput =>
        /\ pc # "raised"
        /\ pc = "done" =>
              /\ result.tp = Len(predicted.items)
              /\ result.precision = One
              /\ result.recall = One
              /\ result.f1 = One

C10_Witness ==
    /\ ExactSelfInput
    /\ pc = "done"
    /\ Len(predicted.items) = 2
    /\ PClass(0) = PClass(1)
    /\ result.tp = 2
    /\ result.f1 = One

----------------------------------------------------------------------------
(* Properties of run_eval, checked under SpecEval *)

\* the documents of a directory that have a gold file and a predicted file
BothDocs(dir) ==
    {n \in DOMAIN dir : dir[n].txt /\ dir[n].gold # Absent /\ dir[n].pred # Absent}

\* the documents of a directory that lack one of the two
LackingDocs(dir) ==
    {n \in DOMAIN dir : dir[n].txt /\ (dir[n].gold = Absent \/ dir[n].pred = Absent)}

RECURSIVE ConcatPred(_, _)
ConcatPred(dir, names) ==
    IF names = <<>> THEN <<>>
    ELSE LoadPred(dir[Head(names)].pred).items \o ConcatPred(dir, Tail(names))

RECURSIVE ConcatGold(_, _)
ConcatGold(dir, names) ==
    IF names = <<>> THEN <<>>
    ELSE load_gold(dir[Head(names)].gold).items \o ConcatGold(dir, Tail(names))

\* the predicted and the gold sequences of the documents, concatenated in document order
PooledPred == ConcatPred(samples_dir, SortedNames(BothDocs(samples_dir)))
PooledGold == ConcatGold(samples_dir, SortedNames(BothDocs(samples_dir)))

TwoDocsReported == epc = "done" /\ Cardinality(BothDocs(samples_dir)) >= 2

(* C2: for two documents that each have a gold set and a predicted set, the
   aggregate of the report run_eval returns is the result of one
   compute_metrics call (partial predicate) on the concatenation, in
   document order, of their predicted and of their gold sequences. *)
C2_AggregateIsPooledScore ==
    TwoDocsReported =>
        Returned(report.aggregate)
            = compute_metrics(List(PooledPred), List(PooledGold), "partial")

(* C2, amended: the aggregate is that compute_metrics result when both
   concatenations are non-empty, and the empty object when one of them is
   empty. *)
C2_AggregateIsPooledScoreOrEmpty ==
    TwoDocsReported =>
        IF PooledPred # <<>> /\ PooledGold # <<>>
        THEN Returned(report.aggregate)
                 = compute_metrics(List(PooledPred), List(PooledGold), "partial")
        ELSE report.aggregate = NoFields

\* two documents, and a pair across them that only the pooled call finds
C2_Witness ==
    /\ TwoDocsReported
    /\ Len(report.per_file) = 2
    /\ report.aggregate # NoFields
    /\ report.aggregate.tp = 1
    /\ report.per_file[1].metrics.tp = 0
    /\ report.per_file[2].metrics.tp = 0

\* what the loaded collection of a source is said to be
ClaimedLoad(data) ==
    IF IsList(data) THEN data
    ELSE IF /\ IsDict(data)
            /\ "extractions" \in DOMAIN data.fields
            /\ IsList(data.fields.extractions)
         THEN data.fields.extractions
    ELSE List(<<>>)

\* the document of the iteration that ended last
LastDoc == samples_dir[TxtPaths(samples_dir)[txt_i]]

(* C6: a loaded gold or predicted source gives the source itself if it is a
   sequence, its extractions field if it is an object whose extractions
   field holds a sequence, and the empty sequence for every other shape. *)
C6_LoadedCollection ==
    txt_i > 0 =>
        /\ LastDoc.gold # Absent => doc_gold = ClaimedLoad(LastDoc.gold)
        /\ (LastDoc.gold # Absent /\ LastDoc.pred # Absent) =>
              pred_list = ClaimedLoad(LastDoc.pred)

Outcome == [raised |-> epc = "raised", report |-> report]

(* C7: a document that lacks its gold file or its predicted file adds no
   per_file entry and no record to the pools: the outcome of run_eval is
   the outcome of run_eval on the directory without that document. *)
C7_SkippedDocumentHasNoEffect ==
    epc \in {"done", "raised"} =>
        \A n \in LackingDocs(samples_dir) :
            /\ Outcome = run_eval([samples_dir EXCEPT ![n] = NoDoc])
            /\ epc = "done" =>
                  \A k \in 1..Len(report.per_file) : report.per_file[k].file # n

\* a skipped document with gold records, beside a scored one
C7_Witness ==
    /\ epc = "done"
    /\ \E n \in LackingDocs(samples_dir) :
          /\ samples_dir[n].gold = List(<<RecA>>)
          /\ samples_dir[n].pred = Absent
    /\ Len(report.per_file) = 1
    /\ report.aggregate # NoFields
    /\ report.aggregate.gold = 2

----------------------------------------------------------------------------
(* Properties of the predicates, checked under Spec on the texts of the call *)

\* the texts of the records of the call that are strings
TextsOf(v) ==
    IF IsList(v)
    THEN {Get(v.items[k], "text", EmptyStr) : k \in {j \in 1..Len(v.items) : IsDict(v.items[j])}}
    ELSE {}

CallTexts == {t \in TextsOf(predicted) \cup TextsOf(gold) : IsStr(t)}

UpperChars == {"A", "B", "X"}
SameLetter(c, d) ==
    d = c \/ <<c, d>> \in {<<"A", "a">>, <<"B", "b">>, <<"X", "x">>}

IsNotSpace(c) == c # " "
Letters(s) == SelectSeq(s, IsNotSpace)
WordCount(s) ==
    Cardinality({k \in 1..Len(s) : s[k] # " " /\ (k = 1 \/ s[k - 1] = " ")})
SpaceCount(s) == Cardinality({k \in 1..Len(s) : s[k] = " "})

\* n is s lowercased, stripped, its whitespace runs collapsed to one space
IsNormalFormOf(n, s) ==
    /\ \A k \in 1..Len(n) : n[k] \notin UpperChars
    /\ Len(Letters(n)) = Len(Letters(s))
    /\ \A k \in 1..Len(Letters(n)) : SameLetter(Letters(s)[k], Letters(n)[k])
    /\ n # <<>> => (n[1] # " " /\ n[Len(n)] # " ")
    /\ \A k \in 1..(Len(n) - 1) : ~(n[k] = " " /\ n[k + 1] = " ")
    /\ WordCount(n) = WordCount(s)
    /\ SpaceCount(n) = IF WordCount(s) = 0 THEN 0 ELSE WordCount(s) - 1

IsSubstring(a, b) ==
    \E pre \in 0..Len(b) : \E post \in 0..Len(b) :
        /\ pre + Len(a) + post = Len(b)
        /\ \A k \in 1..Len(a) : b[pre + k] = a[k]

\* both normal forms non-empty and one a substring of the other
PartialRelation(a, b) ==
    LET na == normalize_for_match(a.chars)
        nb == normalize_for_match(b.chars)
    IN  na # <<>> /\ nb # <<>> /\ (IsSubstring(na, nb) \/ IsSubstring(nb, na))

\* one predicted record against one gold record of its class, both texts strings
SinglePairCall ==
    /\ IsList(predicted) /\ IsList(gold)
    /\ Len(predicted.items) = 1 /\ Len(gold.items) = 1
    /\ IsDict(predicted.items[1]) /\ IsDict(gold.items[1])
    /\ PClass(0) = GClass(0)
    /\ IsStr(PText(0)) /\ IsStr(GText(0))

(* C11: partial_match(a, b) is true exactly when normalize(a) and
   normalize(b) are both non-empty and one is a substring of the other,
   normalize being lowercasing, stripping and collapsing whitespace runs to
   one space; so under the partial predicate every pair satisfies that
   relation and a single same-class pair gives tp = 1 exactly when it
   does. *)
C11_PartialMatchIsContainment ==
    /\ \A t \in CallTexts : IsNormalFormOf(normalize_for_match(t.chars), t.chars)
    /\ \A a \in CallTexts, b \in CallTexts : partial_match(a, b) <=> PartialRelation(a, b)
    /\ match_fn = "partial" => \A a \in pairs : PartialRelation(PText(a[1]), GText(a[2]))
    /\ (match_fn = "partial" /\ SinglePairCall /\ pc = "done") =>
          (result.tp = 1 <=> PartialRelation(PText(0), GText(0)))

\* the longer text predicted, the fragment gold: case, whitespace and containment
C11_Witness ==
    /\ match_fn = "partial"
    /\ pc = "done"
    /\ predicted.items = <<RecB>>
    /\ gold.items = <<RecA>>
    /\ PText(0) # GText(0)
    /\ result.tp = 1

(* C12: both predicates are symmetric, match(a, b) = match(b, a) for all
   texts, and reflexive on texts that are non-empty after normalization; so
   a single pair scores the same tp with predicted and gold exchanged. *)
C12_SymmetricReflexive ==
    /\ \A fn \in {"partial", "exact"} : \A a \in CallTexts :
          /\ \A b \in CallTexts : Match(fn, a, b) <=> Match(fn, b, a)
          /\ normalize_for_match(a.chars) # <<>> => Match(fn, a, a)
    /\ (SinglePairCall /\ pc = "done") =>
          compute_metrics(gold, predicted, match_fn) = Returned(Metrics(result.tp, 1, 1))

\* the fragment predicted, the longer text gold: matched in both directions
C12_Witness ==
    /\ match_fn = "partial"
    /\ pc = "done"
    /\ predicted.items = <<RecA>>
    /\ gold.items = <<RecB>>
    /\ result.tp = 1
    /\ partial_match(GText(0), PText(0))
    /\ partial_match(PText(0), PText(0))

----------------------------------------------------------------------------
(* Properties of repeated and interleaved invocations, checked under SpecCalls *)

\* what an ended invocation yielded
Yield(f) ==
    IF f.pc = "done" THEN Returned(f.result) ELSE Raised(f.err)

\* what the invocation yields when it is the only one
Alone(f) == compute_metrics(f.predicted, f.gold, f.match_fn)

(* C13: compute_metrics holds no state between calls: under any
   interleaving of two invocations and any repetition, every invocation
   that ends yields what it yields when run alone, which depends on its
   predicted sequence, gold sequence and predicate only. *)
C13_NoStateBetweenCalls ==
    \A f \in {Frame, suspended} :
        f.pc \in {"done", "raised"} => Yield(f) = Alone(f)

\* both invocations have scored, after at least one earlier invocation over shared records
C13_Witness ==
    /\ pc = "done"
    /\ suspended.pc = "done"
    /\ Frame # suspended
    /\ result.tp = 2
    /\ suspended.result.tp = 1
    /\ \E k \in 1..Len(gold.items) : gold.items[k] \in {suspended.gold.items[j] : j \in 1..Len(suspended.gold.items)}

----------------------------------------------------------------------------
(* The order of the matching, checked under Spec *)

\* the gold indices consumed before predicted record k is processed
ConsumedBefore(k) == {a[2] : a \in {b \in pairs : b[1] < k}}

\* the scan for predicted record k goes past gold index j without a hit
Passed(k, j) ==
    \/ j \in ConsumedBefore(k)
    \/ /\ IsDict(gold.items[j + 1])
       /\ \/ PClass(k) # GClass(j)
          \/ /\ ~MatchRaises(PText(k), GText(j))
             /\ ~Match(match_fn, PText(k), GText(j))

\* gold index j is a hit for predicted record k
IsHit(k, j) ==
    /\ j \notin ConsumedBefore(k)
    /\ IsDict(gold.items[j + 1])
    /\ PClass(k) = GClass(j)
    /\ ~MatchRaises(PText(k), GText(j))
    /\ Match(match_fn, PText(k), GText(j))

GreedyOrder ==
    /\ tp = Cardinality(matched_gold)
    /\ \A a \in pairs :
          /\ a[1] < pi
          /\ IsHit(a[1], a[2])
          /\ \A j \in 0..(a[2] - 1) : Passed(a[1], j)
    /\ pc \in {"for_pred", "for_gold", "done"} =>
          \A k \in 0..(pi - 1) :
              (\A a \in pairs : a[1] # k) =>
                  \A j \in 0..(Len(gold.items) - 1) : Passed(k, j)
    /\ pc = "for_gold" => \A j \in 0..(gi - 1) : Passed(pi, j)

HitStep ==
    /\ tp' = tp + 1
    /\ gi \notin matched_gold
    /\ matched_gold' = matched_gold \cup {gi}
    /\ pairs' = pairs \cup {<<pi, gi>>}
    /\ IsHit(pi, gi)
    /\ pi' = pi + 1
    /\ pc' = "for_pred"

GreedyStep ==
    /\ matched_gold \subseteq matched_gold'
    /\ pi' \in {pi, pi + 1}
    /\ (tp' # tp \/ matched_gold' # matched_gold \/ pairs' # pairs) => HitStep

(* C14: compute_metrics takes the predicted records in input order and pairs
   each with the lowest-index gold record that is not yet consumed, has its
   class and satisfies the predicate; on that hit it consumes the index,
   adds exactly one to tp and leaves the scan; a record without a pair has
   no such gold record; a consumed index is never released and tp is the
   number of consumed indices. *)
C14_GreedyFirstMatch == [](GreedyOrder) /\ [][GreedyStep]_vars

\* the first candidate in order is taken, not the closest text
C14_Witness ==
    /\ pc = "done"
    /\ match_fn = "partial"
    /\ predicted.items = <<RecA, RecB>>
    /\ gold.items = <<RecB, RecA>>
    /\ pairs = {<<0, 0>>, <<1, 1>>}
    /\ matched_gold = {0, 1}
    /\ tp = 2

----------------------------------------------------------------------------
(* The exact predicate as a count over keys, checked under Spec *)

\* both arguments are lists of objects whose texts are strings
WellFormed ==
    /\ IsList(predicted)
    /\ IsList(gold)
    /\ \A k \in 1..Len(predicted.items) :
          IsDict(predicted.items[k]) /\ IsStr(PText(k - 1))
    /\ \A j \in 1..Len(gold.items) :
          IsDict(gold.items[j]) /\ IsStr(GText(j - 1))

\* the key of a record: its class and its normalized text
Key(r) ==
    <<Get(r, "class", EmptyStr),
      normalize_for_match(Get(r, "text", EmptyStr).chars)>>

CountKey(records, key) ==
    Cardinality({k \in 1..Len(records) : Key(records[k]) = key})

Keys(records) == {Key(records[k]) : k \in 1..Len(records)}

RECURSIVE SumOfMins(_, _, _)
SumOfMins(keys, preds, golds) ==
    IF keys = {} THEN 0
    ELSE LET key == CHOOSE x \in keys : TRUE
         IN  Min(CountKey(preds, key), CountKey(golds, key))
                 + SumOfMins(keys \ {key}, preds, golds)

Orders(n) ==
    {f \in [1..n -> 1..n] : \A a, b \in 1..n : f[a] = f[b] => a = b}

Permuted(records, f) == [k \in 1..Len(records) |-> records[f[k]]]

(* C15: for well-formed predicted and gold sequences the tp that
   compute_metrics returns under the exact predicate is the sum, over the
   (class, normalized text) keys, of the smaller of the number of predicted
   and the number of gold records with that key, and every permutation of
   predicted or of gold gives the same tp. *)
C15_ExactIsSumOfMins ==
    (pc = "done" /\ match_fn = "exact" /\ WellFormed) =>
        /\ result.tp = SumOfMins(Keys(predicted.items) \cup Keys(gold.items),
                                 predicted.items, gold.items)
        /\ \A f \in Orders(Len(predicted.items)) :
              LET r == compute_metrics(List(Permuted(predicted.items, f)), gold, "exact")
              IN  ~r.raised /\ r.metrics.tp = result.tp
        /\ \A h \in Orders(Len(gold.items)) :
              LET r == compute_metrics(predicted, List(Permuted(gold.items, h)), "exact")
              IN  ~r.raised /\ r.metrics.tp = result.tp

\* two predicted records share one key that a single gold record has
C15_Witness ==
    /\ pc = "done"
    /\ match_fn = "exact"
    /\ predicted.items = <<RecA, RecA>>
    /\ gold.items = <<RecB, RecA>>
    /\ WellFormed
    /\ result.tp = 1
    /\ CountKey(predicted.items, Key(RecA)) = 2
    /\ CountKey(gold.items, Key(RecA)) = 1

----------------------------------------------------------------------------
(* The aggregate against the per-file entries, checked under SpecEval *)

\* the sum of one count over the per_file entries of a report
RECURSIVE SumPerFile(_, _)
SumPerFile(per_file, field) ==
    IF per_file = <<>> THEN 0
    ELSE Head(per_file).metrics[field] + SumPerFile(Tail(per_file), field)

PooledReport == epc = "done" /\ all_pred # <<>> /\ all_gold # <<>>

(* C16: in a report of run_eval whose pooled predicted and pooled gold
   sequences are both non-empty, the aggregate tp is at least the sum of the
   per_file tp values, and the aggregate pred and gold counts are the sums of
   the per_file pred and gold counts. *)
C16_AggregateDominatesPerFile ==
    PooledReport =>
        /\ report.aggregate # NoFields
        /\ report.aggregate.tp >= SumPerFile(report.per_file, "tp")
        /\ report.aggregate.pred = SumPerFile(report.per_file, "pred")
        /\ report.aggregate.gold = SumPerFile(report.per_file, "gold")

\* pooling adds a pair across two documents to the pair inside the first
C16_Witness ==
    /\ PooledReport
    /\ Len(report.per_file) = 2
    /\ report.per_file[1].metrics.tp = 1
    /\ report.per_file[2].metrics.tp = 0
    /\ report.aggregate.tp = 2
    /\ report.aggregate.pred = 2
    /\ report.aggregate.gold = 2

====
